---- MODULE Spec2Model ----
(***************************************************************************)
(* Model of the DWD open-data retrieval library wxlib.retrieve_nwp:        *)
(* the process-wide catalogue, the catalogue builder                       *)
(* prepare_catalogue_of_available_dwd_data and the file resolver           *)
(* determine_remote_files_to_retrieve_dwd_fcvariable.                      *)
(*                                                                         *)
(* Python strings are TLA+ strings; "x in s" is substring containment.     *)
(* A Python value that may be None is a record [isNone, v].                *)
(***************************************************************************)
EXTENDS Integers, Sequences, FiniteSets, TLC

VARIABLES
    catalogue,          \* the global "catalogue" dictionary
    pc,                 \* position of the running build
    repository,         \* the FTP session of the build: [isNone, v]
    queried_model_list, \* build's parameter / local
    basetimehour_list,  \* build's parameter / local
    variable_list,      \* build's parameter / local
    mi, bi, vi,         \* positions of the three nested for-loops
    ret,                \* what the build returned or raised
    session,            \* the remote end: connections opened, open, logged in
    nlstLog,            \* the directories listed so far, in order
    visited,            \* the (model, base time, variable) triples filled
    connFault,          \* the stage at which the connection attempt failed
    catBefore,          \* the catalogue when the build was called
    args,               \* the three arguments the build was called with
    req,                \* the arguments of the resolve calls
    results,            \* the outcomes the resolve calls have had
    calls               \* the number of resolve calls made

vars == <<catalogue, pc, repository, queried_model_list, basetimehour_list,
          variable_list, mi, bi, vi, ret, session, nlstLog, visited,
          connFault, catBefore, args, req, results, calls>>

buildVars == <<pc, repository, queried_model_list, basetimehour_list,
               variable_list, mi, bi, vi, ret, session, nlstLog, visited,
               connFault, catBefore, args>>

-----------------------------------------------------------------------------
(* Bounds of the model.                                                    *)

MaxFiles == 2       \* longest catalogue entry given to the resolver
MaxKeys == 2        \* longest leadtime_list / level_list
MaxCalls == 2       \* resolve calls in one behaviour
MaxModels == 2      \* longest queried_model_list
MaxListLen == 2     \* longest basetimehour_list / variable_list

-----------------------------------------------------------------------------
(* Python values.                                                          *)

None == [isNone |-> TRUE, v |-> <<>>]
Some(x) == [isNone |-> FALSE, v |-> x]

Range(s) == {s[i] : i \in 1..Len(s)}

SeqsUpTo(S, n) == UNION {[1..k -> S] : k \in 0..n}

\* dict.fromkeys(keys): every key mapped to None
FromKeys(keys) == Some([k \in Range(keys) |-> None])

UpperCase == "ABCDEFGHIJKLMNOPQRSTUVWXYZ"
LowerCase == "abcdefghijklmnopqrstuvwxyz"

\* the lower-case letter of every upper-case letter
LowerTable ==
    [c \in {SubSeq(UpperCase, i, i) : i \in 1..26} |->
        SubSeq(LowerCase, CHOOSE i \in 1..26 : SubSeq(UpperCase, i, i) = c,
                          CHOOSE i \in 1..26 : SubSeq(UpperCase, i, i) = c)]

LowerChar(c) == IF c \in DOMAIN LowerTable THEN LowerTable[c] ELSE c

RECURSIVE Lower(_)
\* str.lower()
Lower(s) ==
    IF s = "" THEN ""
    ELSE LowerChar(SubSeq(s, 1, 1)) \o Lower(SubSeq(s, 2, Len(s)))

Digits == "0123456789"

RECURSIVE Str(_)
\* str(x) of a non-negative integer: decimal digits, no padding
Str(n) ==
    IF n < 10 THEN SubSeq(Digits, n + 1, n + 1)
    ELSE Str(n \div 10) \o SubSeq(Digits, (n % 10) + 1, (n % 10) + 1)

\* s[-2:]
LastTwo(s) == SubSeq(s, IF Len(s) > 2 THEN Len(s) - 1 ELSE 1, Len(s))

-----------------------------------------------------------------------------
(* File names that follow the provider's naming convention, the values of  *)
(* the requests, and substring search on them.                             *)

RotatedModelLevel == "rotated-lat-lon_model-level"

FilePrefix == "cosmo-d2_germany_rotated-lat-lon_model-level_"

FilePool ==
    {FilePrefix \o "2020022300_001_7_P.grib2.bz2",
     FilePrefix \o "2020022300_120_7_P.grib2.bz2",
     FilePrefix \o "2020022300_120_8_P.grib2.bz2",
     FilePrefix \o "2020022400_001_7_P.grib2.bz2"}

LeadTimeValues == {1, 120}
LevelValues == {7, 8, 120}

BasetimeStrings == {"2020022300", "2020022400", "2020022306"}

\* the strings the resolver searches for in the file names of FilePool
KeyPool ==
    {"_" \o Str(x) \o "_" : x \in LeadTimeValues \cup LevelValues}
        \cup {"_" \o Str(lt) \o "_" \o Str(lv) \o "_" :
                  lt \in LeadTimeValues, lv \in LevelValues}
        \cup BasetimeStrings

\* "k in s" for strings: k equals one of the slices of s of its length
ContainsSlice(s, k) ==
    \E i \in 1..(Len(s) - Len(k) + 1) : SubSeq(s, i, i + Len(k) - 1) = k

\* ContainsSlice on the file names and search strings above, evaluated once
ContainsTable == [f \in FilePool |-> {k \in KeyPool : ContainsSlice(f, k)}]

\* "k in s" for strings
Contains(s, k) ==
    IF s \in FilePool /\ k \in KeyPool
    THEN k \in ContainsTable[s]
    ELSE ContainsSlice(s, k)

-----------------------------------------------------------------------------
(* The Model Registry (wxlib.config).                                      *)

dwd_base_dir == "/weather/nwp/"

dwd_nwp_models == <<"cosmo-d2", "icon-eu", "icon">>

dwd_nwp_models_grid_types ==
    [m \in {"cosmo-d2", "icon-eu", "icon"} |->
        CASE m = "cosmo-d2" ->
                <<"regular-lat-lon_pressure-level",
                  "regular-lat-lon_model-level",
                  "regular-lat-lon_single-level",
                  "regular-lat-lon_time-invariant",
                  "rotated-lat-lon_pressure-level",
                  "rotated-lat-lon_model-level",
                  "rotated-lat-lon_single-level",
                  "rotated-lat-lon_time-invariant">>
          [] m = "icon-eu" ->
                <<"regular-lat-lon_pressure-level",
                  "regular-lat-lon_model-level",
                  "regular-lat-lon_single-level",
                  "regular-lat-lon_time-invariant">>
          [] m = "icon" ->
                <<"icosahedral_pressure-level",
                  "icosahedral_model-level",
                  "icosahedral_single-level",
                  "icosahedral_time-invariant">>]

\* the catalogue at import time
InitialCatalogue == FromKeys(dwd_nwp_models)

-----------------------------------------------------------------------------
(* The file resolver.                                                      *)

\* d[k] of Python: TypeError on None, KeyError on a missing key
Subscript(d, k) ==
    IF d.isNone THEN [exc |-> "TypeError", val |-> None]
    ELSE IF k \notin DOMAIN d.v THEN [exc |-> "KeyError", val |-> None]
    ELSE [exc |-> "", val |-> d.v[k]]

\* catalogue[model_name.lower()][basetimehour][variable.lower()][grid_type]
LookupEntry(cat, variable, model_name, basetime_string, grid_type) ==
    LET a == Subscript(cat, Lower(model_name))
        b == Subscript(a.val, LastTwo(basetime_string))
        c == Subscript(b.val, Lower(variable))
    IN  IF a.exc # "" THEN [exc |-> a.exc, files |-> <<>>]
        ELSE IF b.exc # "" THEN [exc |-> b.exc, files |-> <<>>]
        ELSE IF c.exc # "" THEN [exc |-> c.exc, files |-> <<>>]
        ELSE IF c.val.isNone THEN [exc |-> "TypeError", files |-> <<>>]
        ELSE IF grid_type \notin DOMAIN c.val.v
             THEN [exc |-> "KeyError", files |-> <<>>]
        ELSE [exc |-> "", files |-> c.val.v[grid_type]]

\* ['_' + str(x) + '_' for x in leadtime_list]
LeadtimeStrings(leadtime_list) ==
    [i \in 1..Len(leadtime_list) |-> "_" \o Str(leadtime_list[i]) \o "_"]

\* [str(x) + '_' for x in level_list]
LevelStrings(level_list) ==
    [i \in 1..Len(level_list) |-> Str(level_list[i]) \o "_"]

\* for leadtime in leadtime_list: for level in level_list: append
Product(lts, lvs) ==
    [i \in 1..(Len(lts) * Len(lvs)) |->
        lts[((i - 1) \div Len(lvs)) + 1] \o lvs[((i - 1) % Len(lvs)) + 1]]

\* leadtimelev_list as if an empty list were tested like an absent one
\* ('if leadtime_list:' in place of 'if leadtime_list is not None:')
LeadtimeLevList_EmptyAsAbsent(leadtime_list, level_list) ==
    IF ~leadtime_list.isNone /\ leadtime_list.v # <<>>
    THEN IF ~level_list.isNone /\ level_list.v # <<>>
         THEN Some(Product(LeadtimeStrings(leadtime_list.v),
                           LevelStrings(level_list.v)))
         ELSE Some(LeadtimeStrings(leadtime_list.v))
    ELSE IF ~level_list.isNone /\ level_list.v # <<>>
         THEN Some([i \in 1..Len(level_list.v) |->
                        "_" \o Str(level_list.v[i]) \o "_"])
         ELSE None

\* leadtimelev_list, None when neither list is given
LeadtimeLevList(leadtime_list, level_list) ==
    IF ~leadtime_list.isNone
    THEN IF ~level_list.isNone
         THEN Some(Product(LeadtimeStrings(leadtime_list.v),
                           LevelStrings(level_list.v)))
         ELSE Some(LeadtimeStrings(leadtime_list.v))
    ELSE IF ~level_list.isNone
         THEN Some([i \in 1..Len(level_list.v) |->
                        "_" \o Str(level_list.v[i]) \o "_"])
         ELSE None

\* the positions of the keys that are substrings of the file name
KeysIn(keys, file) == {i \in 1..Len(keys) : Contains(file, keys[i])}

\* any(leadtimelevel in single_grb_file for leadtimelevel in leadtimelev_list)
AnyKeyIn(keys, file) == KeysIn(keys, file) # {}

\* the key the inner loop flags before its break: the first one in the file
FlaggedKey(keys, file) ==
    LET found == KeysIn(keys, file)
    IN  keys[CHOOSE i \in found : \A j \in found : i <= j]

\* the flags as if a file naming any key set the flag of every key
FlaggedKeys_AnyFlagsAll(keys, files) ==
    IF \E i \in 1..Len(files) : AnyKeyIn(keys, files[i])
    THEN Range(keys) ELSE {}

\* leadtimelev_list_flag after the scan, as the set of keys set to True
FlaggedKeys(keys, files) ==
    {FlaggedKey(keys, files[i]) :
        i \in {j \in 1..Len(files) : AnyKeyIn(keys, files[j])}}

\* the keys of a dict built from a list: first occurrences, in order
DictKeys(keys) ==
    SelectSeq([i \in 1..Len(keys) |->
                  [k |-> keys[i],
                   first |-> \A j \in 1..(i - 1) : keys[j] # keys[i]]],
              LAMBDA e : e.first)

\* failed_list as if the test were "no flag is True" instead of "False in"
FailedList_NoneFlagged(keys, files) ==
    IF FlaggedKeys(keys, files) = {}
    THEN [i \in 1..Len(DictKeys(keys)) |-> DictKeys(keys)[i].k]
    ELSE <<>>

\* failed_list: the keys whose flag is still False, in dict order
FailedList(keys, files) ==
    LET flagged == FlaggedKeys(keys, files)
        unflagged == SelectSeq(DictKeys(keys), LAMBDA e : e.k \notin flagged)
    IN  [i \in 1..Len(unflagged) |-> unflagged[i].k]

\* queried_file_list after the scan with a key list
FilterFiles(keys, files) == SelectSeq(files, LAMBDA f : AnyKeyIn(keys, f))

\* the base-time check as if it looked at the first file only
BasetimeMissing_FirstOnly(files, basetime_string) ==
    Len(files) > 0 /\ ~Contains(files[1], basetime_string)

\* the check that the files are available for the input basetime_string
BasetimeMissing(files, basetime_string) ==
    \E i \in 1..Len(files) : ~Contains(files[i], basetime_string)

Returned(files) == [outcome |-> "files", files |-> files, failed |-> <<>>]
ReturnedNone == [outcome |-> "None", files |-> <<>>, failed |-> <<>>]
Unavailable(failed) == [outcome |-> "None", files |-> <<>>, failed |-> failed]
Raised(exc) == [outcome |-> exc, files |-> <<>>, failed |-> <<>>]

determine_remote_files_to_retrieve_dwd_fcvariable(cat, r) ==
    LET basetime_string == r.basetime_string
        entry == LookupEntry(cat, r.variable, r.model_name, basetime_string,
                             r.grid_type)
        complete_file_list == entry.files
        leadtimelev_list == LeadtimeLevList(r.leadtime_list, r.level_list)
        failed_list == FailedList(leadtimelev_list.v, complete_file_list)
    IN  IF entry.exc # "" THEN Raised(entry.exc)
        ELSE IF Len(complete_file_list) = 0 THEN ReturnedNone
        ELSE IF BasetimeMissing(complete_file_list, basetime_string)
             THEN ReturnedNone
        \* dict.fromkeys(None, False)
        ELSE IF leadtimelev_list.isNone THEN Raised("TypeError")
        ELSE IF failed_list # <<>> THEN Unavailable(failed_list)
        ELSE Returned(FilterFiles(leadtimelev_list.v, complete_file_list))

-----------------------------------------------------------------------------
(* The resolver's inputs: catalogue entries that follow the provider's     *)
(* file naming convention, and requests against them.                      *)

OptionalLists(S) == {None} \cup {Some(l) : l \in SeqsUpTo(S, MaxKeys)}

\* a catalogue holding one built variable of cosmo-d2 at hour 00
CatalogueWithEntry(entry) ==
    Some([m \in Range(dwd_nwp_models) |->
        IF m = "cosmo-d2"
        THEN Some([h \in {"00"} |->
                Some([v \in {"p"} |->
                    Some([g \in Range(dwd_nwp_models_grid_types[m]) |->
                        IF g = RotatedModelLevel THEN entry ELSE <<>>])])])
        ELSE None])

\* requests that reach the built entry, with every constraint list
EntryRequests ==
    [variable : {"p"},
     model_name : {"cosmo-d2"},
     basetime_string : {"2020022300", "2020022400"},
     grid_type : {RotatedModelLevel},
     leadtime_list : OptionalLists(LeadTimeValues),
     level_list : OptionalLists(LevelValues)]

\* requests along every key path, with few constraint lists
PathRequests ==
    [variable : {"p", "P", "t"},
     model_name : {"cosmo-d2", "COSMO-D2", "icon", "arome"},
     basetime_string : {"2020022300", "2020022400", "2020022306"},
     grid_type : {RotatedModelLevel, "icosahedral_model-level"},
     leadtime_list : {None, Some(<<120>>)},
     level_list : {None, Some(<<7>>)}]

BuildIdle ==
    /\ pc = "idle"
    /\ repository = None
    /\ queried_model_list = None
    /\ basetimehour_list = None
    /\ variable_list = None
    /\ mi = 0 /\ bi = 0 /\ vi = 0
    /\ ret = [kind |-> "pending", exc |-> "", call |-> ""]
    /\ session = [opened |-> 0, open |-> FALSE, loggedIn |-> FALSE]
    /\ nlstLog = <<>>
    /\ visited = {}
    /\ connFault = ""
    /\ catBefore = catalogue
    /\ args = <<None, None, None>>

InitResolve ==
    /\ \E entry \in SeqsUpTo(FilePool, MaxFiles) :
          /\ catalogue = CatalogueWithEntry(entry)
          /\ req \in EntryRequests
                       \cup (IF Len(entry) <= 1 THEN PathRequests ELSE {})
    /\ results = {}
    /\ calls = 0
    /\ BuildIdle

\* one call as if queried_file_list were the catalogue's own list object,
\* so that the files appended to it are appended to the catalogue entry
Resolve_Aliased ==
    /\ pc = "idle"
    /\ calls < MaxCalls
    /\ LET res == determine_remote_files_to_retrieve_dwd_fcvariable(
                      catalogue, req)
           entry == LookupEntry(catalogue, req.variable, req.model_name,
                                req.basetime_string, req.grid_type)
       IN  /\ results' = results \cup {res}
           /\ catalogue' = IF res.outcome = "files"
                           THEN CatalogueWithEntry(entry.files \o res.files)
                           ELSE catalogue
    /\ calls' = calls + 1
    /\ UNCHANGED <<req, buildVars>>

\* one call of determine_remote_files_to_retrieve_dwd_fcvariable: it binds
\* new lists to its local names and writes neither the catalogue nor the
\* lists of its caller
Resolve ==
    /\ pc = "idle"
    /\ calls < MaxCalls
    /\ results' = results \cup
            {determine_remote_files_to_retrieve_dwd_fcvariable(catalogue, req)}
    /\ calls' = calls + 1
    /\ UNCHANGED <<catalogue, req, buildVars>>

NextResolve == Resolve

SpecResolve == InitResolve /\ [][NextResolve]_vars

-----------------------------------------------------------------------------
(* The remote server: the directory tree below dwd_base_dir.  Names follow *)
(* <model>_<region>_<gridType>_<baseTime>_<leadTime>_<level>_<field>.      *)

RemoteBaseTimes ==
    [m \in {"cosmo-d2", "icon-eu", "icon", "icon-d2"} |->
        CASE m = "cosmo-d2" -> <<"00", "03">>
          [] m = "icon-eu" -> <<"00", "03", "06">>
          [] m = "icon" -> <<"00">>
          [] m = "icon-d2" -> <<"00">>]

RemoteVariables(m, h) ==
    CASE m = "icon-eu" /\ h = "00" -> <<"p", "t", "u">>
      [] m = "icon-eu" /\ h = "06" -> <<"p">>
      [] m = "icon" -> <<"t">>
      [] OTHER -> <<"p", "t">>

RemoteRegion(m) ==
    CASE m = "cosmo-d2" -> "germany"
      [] m = "icon-eu" -> "europe"
      [] OTHER -> "global"

RemoteFileName(m, g, h, lt, lv, v) ==
    m \o "_" \o RemoteRegion(m) \o "_" \o g \o "_20200223" \o h \o "_"
      \o lt \o "_" \o lv \o "_" \o v \o ".grib2.bz2"

\* the names the server reports for the directory of variable v
RemoteFiles(m, h, v) ==
    CASE m = "cosmo-d2" ->
            <<RemoteFileName(m, "rotated-lat-lon_model-level", h, "001", "7", v),
              RemoteFileName(m, "regular-lat-lon_pressure-level", h, "001", "850", v),
              RemoteFileName(m, "rotated-lat-lon_model-level", h, "120", "7", v)>>
      [] m = "icon-eu" ->
            <<RemoteFileName(m, "regular-lat-lon_model-level", h, "001", "7", v),
              RemoteFileName(m, "regular-lat-lon_model-level", h, "001", "7", v),
              RemoteFileName(m, "regular-lat-lon_single-level", h, "001", "2d", v)>>
      [] m = "icon" ->
            <<RemoteFileName(m, "icosahedral_model-level", h, "001", "7", v),
              RemoteFileName(m, "regular-lat-lon_model-level", h, "001", "7", v),
              RemoteFileName(m, "icosahedral_time-invariant", h, "000", "0", v)>>
      [] OTHER ->
            <<RemoteFileName(m, "icosahedral_model-level", h, "001", "7", v)>>

\* model_dir, basetimehour_dir and variable_dir as the build composes them
ModelDir(nwp_model) == dwd_base_dir \o "/" \o nwp_model \o "/grib/"
BasetimehourDir(nwp_model, basetimehour) == ModelDir(nwp_model) \o basetimehour
VariableDir(nwp_model, basetimehour, variable) ==
    BasetimehourDir(nwp_model, basetimehour) \o "/" \o variable

RemoteModels == DOMAIN RemoteBaseTimes

\* the directories of the server, each with the names NLST reports in it
RemoteDirs ==
    {[path |-> ModelDir(m), names |-> RemoteBaseTimes[m]] : m \in RemoteModels}
    \cup UNION {{[path |-> BasetimehourDir(m, h),
                  names |-> RemoteVariables(m, h)] :
                    h \in Range(RemoteBaseTimes[m])} : m \in RemoteModels}
    \cup UNION {UNION {{[path |-> VariableDir(m, h, v),
                         names |-> RemoteFiles(m, h, v)] :
                           v \in Range(RemoteVariables(m, h))} :
                    h \in Range(RemoteBaseTimes[m])} : m \in RemoteModels}

RemoteExists(dir) == \E e \in RemoteDirs : e.path = dir

RemoteNlst(dir) == (CHOOSE e \in RemoteDirs : e.path = dir).names

-----------------------------------------------------------------------------
(* The catalogue builder.                                                  *)

\* d[k] = val on a Python dict
DictSet(d, k, val) ==
    Some([x \in (DOMAIN d.v) \cup {k} |-> IF x = k THEN val ELSE d.v[x]])

\* catalogue[nwp_model] = dict.fromkeys(basetimehour_list)
SetModel(cat, nwp_model, hours) == DictSet(cat, nwp_model, FromKeys(hours))

\* catalogue[nwp_model][basetimehour] = dict.fromkeys(variable_list)
SetBaseTime(cat, nwp_model, basetimehour, variables) ==
    DictSet(cat, nwp_model,
            DictSet(cat.v[nwp_model], basetimehour, FromKeys(variables)))

\* the lists of one variable as if a file already listed were skipped
GridTypeLists_NoDuplicates(grid_type_list, file_list) ==
    Some([g \in Range(grid_type_list) |->
             LET l == SelectSeq(file_list, LAMBDA file : Contains(file, g))
                 firsts == {i \in 1..Len(l) : \A j \in 1..(i - 1) : l[j] # l[i]}
                 Nth(n) == CHOOSE i \in firsts :
                               Cardinality({j \in firsts : j < i}) = n - 1
             IN  [n \in 1..Cardinality(firsts) |-> l[Nth(n)]]])

\* the lists of one variable: every grid type gets the files naming it
GridTypeLists(grid_type_list, file_list) ==
    Some([g \in Range(grid_type_list) |->
             SelectSeq(file_list, LAMBDA file : Contains(file, g))])

\* catalogue[nwp_model][basetimehour][variable] = {grid_type: [files]}
SetVariable(cat, nwp_model, basetimehour, variable, file_list) ==
    DictSet(cat, nwp_model,
        DictSet(cat.v[nwp_model], basetimehour,
            DictSet(cat.v[nwp_model].v[basetimehour], variable,
                GridTypeLists(dwd_nwp_models_grid_types[nwp_model],
                              file_list))))

\* the catalogue an earlier build of cosmo-d2, hour 00, variable p has left
PriorCatalogue ==
    SetVariable(
        SetBaseTime(SetModel(InitialCatalogue, "cosmo-d2", <<"00">>),
                    "cosmo-d2", "00", <<"p">>),
        "cosmo-d2", "00", "p", RemoteFiles("cosmo-d2", "00", "p"))

ModelNames == {"cosmo-d2", "icon-eu", "icon-d2"}
HourNames == {"00", "06"}
VariableNames == {"p", "t", "P"}

OptionalNameLists(S, n) == {None} \cup {Some(l) : l \in SeqsUpTo(S, n)}

Init ==
    /\ catalogue \in {InitialCatalogue, PriorCatalogue}
    /\ req = [variable |-> "p", model_name |-> "cosmo-d2",
              basetime_string |-> "2020022300",
              grid_type |-> RotatedModelLevel,
              leadtime_list |-> None, level_list |-> None]
    /\ results = {}
    /\ calls = 0
    /\ BuildIdle

\* prepare_catalogue_of_available_dwd_data is called
Call ==
    /\ pc = "idle"
    /\ \E ml \in OptionalNameLists(ModelNames, MaxModels),
          bl \in OptionalNameLists(HourNames, MaxListLen),
          vl \in OptionalNameLists(VariableNames, MaxListLen) :
          /\ queried_model_list' = ml
          /\ basetimehour_list' = bl
          /\ variable_list' = vl
          /\ args' = <<ml, bl, vl>>
    /\ catBefore' = catalogue
    /\ pc' = "connect"
    /\ UNCHANGED <<catalogue, repository, mi, bi, vi, ret, session, nlstLog,
                   visited, connFault, req, results, calls>>

\* connect_to_dwd_opendata_ftpserver and the test of its result.
\* fault names the call of the try block that raised, "" when none did.
Connect ==
    /\ pc = "connect"
    /\ \E fault \in {"", "connect", "login", "cwd"} :
          /\ connFault' = fault
          /\ IF fault = "connect"
             THEN /\ repository' = None
                  /\ ret' = [kind |-> "None", exc |-> "", call |-> ""]
                  /\ pc' = "done"
                  /\ UNCHANGED <<session, queried_model_list, mi>>
             ELSE /\ repository' = Some(session.opened + 1)
                  /\ session' = [opened |-> session.opened + 1,
                                 open |-> TRUE,
                                 loggedIn |-> fault # "login"]
                  /\ queried_model_list' =
                        IF queried_model_list.isNone
                        THEN Some(dwd_nwp_models) ELSE queried_model_list
                  /\ mi' = 1
                  /\ pc' = "model"
                  /\ UNCHANGED ret
    /\ UNCHANGED <<catalogue, basetimehour_list, variable_list, bi, vi,
                   nlstLog, visited, catBefore, args, req, results, calls>>

\* repository.cwd(dir) succeeds on an existing directory of a logged-in
\* session when the network does not fail
CwdWorks(dir, fault) == session.loggedIn /\ RemoteExists(dir) /\ fault # "cwd"

\* an exception leaves the build; the call that raised it is recorded
Raise(exc, call) ==
    /\ pc' = "raised"
    /\ ret' = [kind |-> "raised", exc |-> exc, call |-> call]

nwp_model == queried_model_list.v[mi]
basetimehour == basetimehour_list.v[bi]
variable == variable_list.v[vi]

\* one pass of the loop over the models, up to the loop over base times
ModelStep ==
    /\ pc = "model"
    /\ mi <= Len(queried_model_list.v)
    /\ \E fault \in {"", "cwd", "nlst"} :
          LET model_dir == ModelDir(nwp_model)
              listed == basetimehour_list.isNone
              hours == IF listed THEN RemoteNlst(model_dir)
                       ELSE basetimehour_list.v
          IN  IF ~CwdWorks(model_dir, fault)
              THEN /\ Raise("ftplib.Error", "cwd")
                   /\ UNCHANGED <<catalogue, basetimehour_list, bi, nlstLog>>
              ELSE IF listed /\ fault = "nlst"
              THEN /\ Raise("ftplib.Error", "nlst")
                   /\ UNCHANGED <<catalogue, basetimehour_list, bi, nlstLog>>
              ELSE /\ basetimehour_list' = Some(hours)
                   /\ nlstLog' = IF listed THEN Append(nlstLog, model_dir)
                                 ELSE nlstLog
                   /\ catalogue' = SetModel(catalogue, nwp_model, hours)
                   /\ bi' = 1
                   /\ pc' = "basetime"
                   /\ UNCHANGED ret
    /\ UNCHANGED <<repository, queried_model_list, variable_list, mi, vi,
                   session, visited, connFault, catBefore, args, req, results, calls>>

\* one pass of the loop over the base times, up to the loop over variables
BaseTimeStep ==
    /\ pc = "basetime"
    /\ bi <= Len(basetimehour_list.v)
    /\ \E fault \in {"", "cwd", "nlst"} :
          LET basetimehour_dir == BasetimehourDir(nwp_model, basetimehour)
              listed == variable_list.isNone
              variables == IF listed THEN RemoteNlst(basetimehour_dir)
                           ELSE variable_list.v
          IN  IF ~CwdWorks(basetimehour_dir, fault)
              THEN /\ Raise("ftplib.Error", "cwd")
                   /\ UNCHANGED <<catalogue, variable_list, vi, nlstLog>>
              ELSE IF listed /\ fault = "nlst"
              THEN /\ Raise("ftplib.Error", "nlst")
                   /\ UNCHANGED <<catalogue, variable_list, vi, nlstLog>>
              ELSE /\ variable_list' = Some(variables)
                   /\ nlstLog' = IF listed
                                 THEN Append(nlstLog, basetimehour_dir)
                                 ELSE nlstLog
                   /\ catalogue' = SetBaseTime(catalogue, nwp_model,
                                               basetimehour, variables)
                   /\ vi' = 1
                   /\ pc' = "variable"
                   /\ UNCHANGED ret
    /\ UNCHANGED <<repository, queried_model_list, basetimehour_list, mi, bi,
                   session, visited, connFault, catBefore, args, req, results, calls>>

\* one pass of the loop over the variables
VariableStep ==
    /\ pc = "variable"
    /\ vi <= Len(variable_list.v)
    /\ \E fault \in {"", "cwd", "nlst"} :
          LET variable_dir == VariableDir(nwp_model, basetimehour, variable)
          IN  IF ~CwdWorks(variable_dir, fault)
              THEN /\ Raise("ftplib.Error", "cwd")
                   /\ UNCHANGED <<catalogue, vi, nlstLog, visited>>
              ELSE IF fault = "nlst"
              THEN /\ Raise("ftplib.Error", "nlst")
                   /\ UNCHANGED <<catalogue, vi, nlstLog, visited>>
              ELSE IF nwp_model \notin DOMAIN dwd_nwp_models_grid_types
              THEN /\ Raise("KeyError", "grid_type_list")
                   /\ nlstLog' = Append(nlstLog, variable_dir)
                   /\ UNCHANGED <<catalogue, vi, visited>>
              ELSE /\ nlstLog' = Append(nlstLog, variable_dir)
                   /\ catalogue' = SetVariable(catalogue, nwp_model,
                                       basetimehour, variable,
                                       RemoteNlst(variable_dir))
                   /\ visited' = visited \cup
                                    {<<nwp_model, basetimehour, variable>>}
                   /\ vi' = vi + 1
                   /\ UNCHANGED <<pc, ret>>
    /\ UNCHANGED <<repository, queried_model_list, basetimehour_list,
                   variable_list, mi, bi, session, connFault, catBefore,
                   args, req, results, calls>>

\* the loop over the variables is exhausted
EndVariables ==
    /\ pc = "variable"
    /\ vi > Len(variable_list.v)
    /\ bi' = bi + 1
    /\ pc' = "basetime"
    /\ UNCHANGED <<catalogue, repository, queried_model_list,
                   basetimehour_list, variable_list, mi, vi, ret, session,
                   nlstLog, visited, connFault, catBefore, args, req, results, calls>>

\* the loop over the base times is exhausted
EndBaseTimes ==
    /\ pc = "basetime"
    /\ bi > Len(basetimehour_list.v)
    /\ mi' = mi + 1
    /\ pc' = "model"
    /\ UNCHANGED <<catalogue, repository, queried_model_list,
                   basetimehour_list, variable_list, bi, vi, ret, session,
                   nlstLog, visited, connFault, catBefore, args, req, results, calls>>

\* repository.quit() and the return of the catalogue
Quit ==
    /\ pc = "model"
    /\ mi > Len(queried_model_list.v)
    /\ \E fault \in {"", "quit"} :
          IF fault = "quit"
          THEN /\ Raise("ftplib.Error", "quit")
               /\ UNCHANGED session
          ELSE /\ session' = [session EXCEPT !.open = FALSE]
               /\ ret' = [kind |-> "catalogue", exc |-> "", call |-> ""]
               /\ pc' = "done"
    /\ UNCHANGED <<catalogue, repository, queried_model_list,
                   basetimehour_list, variable_list, mi, bi, vi, nlstLog,
                   visited, connFault, catBefore, args, req, results, calls>>

Next ==
    \/ Call
    \/ Connect
    \/ ModelStep
    \/ BaseTimeStep
    \/ VariableStep
    \/ EndVariables
    \/ EndBaseTimes
    \/ Quit

Spec == Init /\ [][Next]_vars

-----------------------------------------------------------------------------
(* Properties of the file resolver, checked under SpecResolve.             *)

\* the catalogue entry the request addresses
ReqEntry ==
    LookupEntry(catalogue, req.variable, req.model_name, req.basetime_string,
                req.grid_type)

\* the match keys of the request as the resolver renders them
ReqKeys == LeadtimeLevList(req.leadtime_list, req.level_list)

\* some file of the list contains the key
Matched(files, k) == \E i \in 1..Len(files) : Contains(files[i], k)

\* a non-empty list whose files all carry the requested base time
Consistent(files) ==
    /\ files # <<>>
    /\ \A i \in 1..Len(files) : Contains(files[i], req.basetime_string)

\* C1 (Completeness): on a non-empty entry whose files all contain the
\* base-time string, a resolve without leadTimes and without levels returns
\* exactly the entry's file list.
C1_Completeness ==
    LET entry == ReqEntry
    IN  \A res \in results :
            (/\ entry.exc = ""
             /\ Consistent(entry.files)
             /\ req.leadtime_list.isNone
             /\ req.level_list.isNone)
                => res = Returned(entry.files)

\* C2 (Satisfiability invariant): a requested match key is reported as
\* failed if and only if no file of the entry contains it.
C2_Satisfiability ==
    LET entry == ReqEntry
        keys == ReqKeys
    IN  \A res \in results :
            (entry.exc = "" /\ Consistent(entry.files) /\ ~keys.isNone)
                => \A k \in Range(keys.v) :
                       (k \in Range(res.failed)) <=> ~Matched(entry.files, k)

\* lt zero-padded to 3 digits
Pad3(lt) ==
    LET d == Str(lt)
    IN  IF Len(d) >= 3 THEN d ELSE SubSeq("000", 1, 3 - Len(d)) \o d

\* the Cartesian product rendered '_' + lt padded + '_' + lv + '_'
PaddedKeys ==
    {"_" \o Pad3(lt) \o "_" \o Str(lv) \o "_" :
        lt \in Range(req.leadtime_list.v), lv \in Range(req.level_list.v)}

\* C3 (Match-key rendering): with both leadTimes and levels given the keys
\* are the pairs rendered with the lead time zero-padded to 3 digits, so
\* the resolve fails naming exactly the padded keys no file contains and
\* returns files when every padded key is contained in a file.
C3_KeyRendering ==
    LET entry == ReqEntry
    IN  \A res \in results :
            (/\ entry.exc = ""
             /\ Consistent(entry.files)
             /\ ~req.leadtime_list.isNone
             /\ ~req.level_list.isNone)
                => LET unmatched ==
                           {k \in PaddedKeys : ~Matched(entry.files, k)}
                   IN  /\ Range(res.failed) = unmatched
                       /\ unmatched = {} => res.outcome = "files"

\* C4 (No partial result): when a requested match key matches no file of
\* the entry, resolve returns the failure value and no file.
C4_NoPartialResult ==
    LET entry == ReqEntry
        keys == ReqKeys
    IN  \A res \in results :
            (/\ entry.exc = ""
             /\ ~keys.isNone
             /\ \E k \in Range(keys.v) : ~Matched(entry.files, k))
                => res.outcome = "None" /\ res.files = <<>>

\* a call failed although one of its keys matched a file
C4_Witness ==
    LET entry == ReqEntry
        keys == ReqKeys
    IN  \E res \in results :
            /\ entry.exc = "" /\ Consistent(entry.files) /\ ~keys.isNone
            /\ \E k \in Range(keys.v) : Matched(entry.files, k)
            /\ \E k \in Range(keys.v) : ~Matched(entry.files, k)
            /\ res.outcome = "None"

\* C5 (NotFound on lookup): an empty leaf list and an absent key path both
\* make resolve return the NotFound value.
C5_NotFound ==
    LET entry == ReqEntry
    IN  \A res \in results :
            (entry.exc # "" \/ entry.files = <<>>) => res = ReturnedNone

\* C6 (Base-time sanity filter): when a file of the entry lacks the
\* requested base-time string, resolve returns NotFound and no file.
C6_BasetimeFilter ==
    LET entry == ReqEntry
    IN  \A res \in results :
            (/\ entry.exc = ""
             /\ \E f \in Range(entry.files) :
                   ~Contains(f, req.basetime_string))
                => res.outcome = "None" /\ res.files = <<>>

\* a call returned NotFound for an entry in which one file carries the base
\* time and every requested key while another file lacks the base time
C6_Witness ==
    LET entry == ReqEntry
        keys == ReqKeys
    IN  \E res \in results :
            /\ entry.exc = "" /\ ~keys.isNone /\ Len(keys.v) > 0
            /\ \E f \in Range(entry.files) :
                  /\ Contains(f, req.basetime_string)
                  /\ \A k \in Range(keys.v) : Contains(f, k)
            /\ \E f \in Range(entry.files) :
                  ~Contains(f, req.basetime_string)
            /\ res = ReturnedNone

RemoveAt(files, p) ==
    [i \in 1..(Len(files) - 1) |-> IF i < p THEN files[i] ELSE files[i + 1]]

\* files[p] contains K and no other requested key, and no other file
\* contains K
OnlyFileOf(files, keys, p, K) ==
    /\ Contains(files[p], K)
    /\ \A k \in Range(keys) \ {K} : ~Contains(files[p], k)
    /\ \A q \in (1..Len(files)) \ {p} : ~Contains(files[q], K)

\* the outcome of the request against the entry without its p-th file
ResolveWithout(files, p) ==
    determine_remote_files_to_retrieve_dwd_fcvariable(
        CatalogueWithEntry(RemoveAt(files, p)), req)

\* K is failed after the removal, every other key is as it was
OnlyKFails(res, without, keys, K) ==
    /\ K \in Range(without.failed)
    /\ \A k \in Range(keys) \ {K} :
          (k \in Range(res.failed)) <=> (k \in Range(without.failed))

\* C12 (No cross-key leakage), as claimed: if a file f contains key K and
\* no other requested key, and no other file contains K, then resolving
\* against the entry with f removed reports K as failed and leaves the
\* status of every other requested key as it was.
C12_NoLeakage ==
    LET entry == ReqEntry
        keys == ReqKeys
    IN  \A res \in results :
            (entry.exc = "" /\ ~keys.isNone)
                => \A p \in 1..Len(entry.files) : \A K \in Range(keys.v) :
                       OnlyFileOf(entry.files, keys.v, p, K)
                           => OnlyKFails(res, ResolveWithout(entry.files, p),
                                         keys.v, K)

\* C12 (No cross-key leakage), amended: the same, provided the entry holds
\* at least one other file and every file of the entry contains the
\* requested base-time string.
C12_NoLeakageOfScannedEntry ==
    LET entry == ReqEntry
        keys == ReqKeys
    IN  \A res \in results :
            (/\ entry.exc = ""
             /\ ~keys.isNone
             /\ Len(entry.files) >= 2
             /\ Consistent(entry.files))
                => \A p \in 1..Len(entry.files) : \A K \in Range(keys.v) :
                       OnlyFileOf(entry.files, keys.v, p, K)
                           => OnlyKFails(res, ResolveWithout(entry.files, p),
                                         keys.v, K)

\* a call succeeded on an entry of which one file is the only one naming a
\* key K while another key is named by another file
C12_Witness ==
    LET entry == ReqEntry
        keys == ReqKeys
    IN  \E res \in results :
            /\ entry.exc = "" /\ ~keys.isNone
            /\ Len(entry.files) >= 2 /\ Consistent(entry.files)
            /\ res.outcome = "files"
            /\ \E p \in 1..Len(entry.files) : \E K \in Range(keys.v) :
                  /\ OnlyFileOf(entry.files, keys.v, p, K)
                  /\ \E k \in Range(keys.v) \ {K} :
                        Matched(RemoveAt(entry.files, p), k)

\* the files of the list that contain at least one of the keys, in order
FilesNamingAKey(files, keys) ==
    LET NamesAKey(f) == \E k \in Range(keys) : Contains(f, k)
    IN  SelectSeq(files, NamesAKey)

\* C13 (Successful result shape): when every requested match key is
\* contained in some file of the entry, resolve returns exactly the files
\* of the entry that contain at least one requested key, in catalogue
\* order, each once.
C13_SuccessShape ==
    LET entry == ReqEntry
        keys == ReqKeys
    IN  \A res \in results :
            (/\ entry.exc = ""
             /\ Consistent(entry.files)
             /\ ~keys.isNone
             /\ \A k \in Range(keys.v) : Matched(entry.files, k))
                => res = Returned(FilesNamingAKey(entry.files, keys.v))

\* leadtime_list or level_list is given as an empty list
EmptyConstraint ==
    \/ ~req.leadtime_list.isNone /\ req.leadtime_list.v = <<>>
    \/ ~req.level_list.isNone /\ req.level_list.v = <<>>

\* C16 (Empty constraint lists): when leadTimes or levels is given as an
\* empty list, resolve on a non-empty entry whose files all contain the
\* base-time string succeeds with an empty sequence of files, not with the
\* entry's file list.
C16_EmptyConstraintLists ==
    LET entry == ReqEntry
    IN  \A res \in results :
            (entry.exc = "" /\ Consistent(entry.files) /\ EmptyConstraint)
                => res = Returned(<<>>)

\* a call with an empty levels list and lead times given has returned on an
\* entry of two files
C16_Witness ==
    LET entry == ReqEntry
    IN  /\ results # {}
        /\ entry.exc = "" /\ Consistent(entry.files)
        /\ Len(entry.files) = 2
        /\ ~req.level_list.isNone /\ req.level_list.v = <<>>
        /\ ~req.leadtime_list.isNone /\ req.leadtime_list.v # <<>>

-----------------------------------------------------------------------------
(* Properties of the catalogue builder, checked under Spec.                *)

\* the build has returned the catalogue
BuildReturned == pc = "done" /\ ret.kind = "catalogue"

\* the build has returned or has been left by an exception
BuildEnded == pc \in {"done", "raised"}

\* C7 (Grid-type assignment): after a build, for every visited (model,
\* base time, variable) and every grid type declared for the model, the
\* catalogued list is the sub-sequence of the directory's listing whose
\* names contain the tag, in listing order, duplicates kept.
C7_GridTypeAssignment ==
    BuildReturned =>
        \A t \in visited :
            \A g \in Range(dwd_nwp_models_grid_types[t[1]]) :
                catalogue.v[t[1]].v[t[2]].v[t[3]].v[g]
                    = SelectSeq(RemoteNlst(VariableDir(t[1], t[2], t[3])),
                                LAMBDA name : Contains(name, g))

\* a returned build has catalogued a listing that names one file twice
C7_Witness ==
    /\ BuildReturned
    /\ <<"icon-eu", "00", "p">> \in visited
    /\ Len(catalogue.v["icon-eu"].v["00"].v["p"].v["regular-lat-lon_model-level"]) = 2
    /\ catalogue.v["icon-eu"].v["00"].v["p"].v["regular-lat-lon_pressure-level"] = <<>>

\* C8 (Per-model discovery): with baseTimeList absent every model's
\* directory is listed and the model's entry holds its own base times;
\* with variableList absent every base-time directory is listed and the
\* base time's entry holds its own variables.
C8_PerModelDiscovery ==
    (BuildReturned /\ connFault = "") =>
        /\ args[2].isNone =>
              \A m \in Range(queried_model_list.v) :
                  /\ ModelDir(m) \in Range(nlstLog)
                  /\ DOMAIN catalogue.v[m].v = Range(RemoteBaseTimes[m])
        /\ args[3].isNone =>
              \A m \in Range(queried_model_list.v) :
                  \A h \in DOMAIN catalogue.v[m].v :
                      /\ BasetimehourDir(m, h) \in Range(nlstLog)
                      /\ DOMAIN catalogue.v[m].v[h].v
                            = Range(RemoteVariables(m, h))

\* the traversal was aborted by a fault of a listing or change of directory
TraversalFault == pc = "raised" /\ ret.call \in {"cwd", "nlst"}

\* C9 (Connection lifecycle): a build that connected has opened exactly
\* one connection, and the connection is closed once the build has ended,
\* both when the traversal completed and when a listing or
\* change-directory fault aborted it.
C9_ConnectionLifecycle ==
    (connFault = "" /\ session.opened > 0 /\ (pc = "done" \/ TraversalFault))
        => session.opened = 1 /\ ~session.open

\* C10 (Connection failure): when connect, login or the initial change of
\* directory fails, the build returns the error value, lists nothing and
\* leaves the catalogue as it was.
C10_ConnectionFailure ==
    (BuildEnded /\ connFault # "")
        => /\ ret.kind = "None"
           /\ nlstLog = <<>>
           /\ catalogue = catBefore

\* C14 (Grid-type level invariant): once a build has returned or has been
\* aborted by a traversal fault, every variable-level entry present in the
\* catalogue is set and maps exactly the grid types declared for its model,
\* each to a file list.
C14_GridTypeLevel ==
    (connFault = "" /\ (BuildReturned \/ TraversalFault)) =>
        \A m \in DOMAIN catalogue.v :
            ~catalogue.v[m].isNone =>
                \A h \in DOMAIN catalogue.v[m].v :
                    ~catalogue.v[m].v[h].isNone =>
                        \A v \in DOMAIN catalogue.v[m].v[h].v :
                            LET e == catalogue.v[m].v[h].v[v]
                            IN  /\ ~e.isNone
                                /\ DOMAIN e.v
                                      = Range(dwd_nwp_models_grid_types[m])

\* C15 (Key canonicalization): once a build has ended, every model key and
\* variable key it left in the catalogue is reached by the resolver's
\* lookup of the same names, which lower-cases the model and the variable.
C15_KeyCanonicalization ==
    (connFault = "" /\ BuildEnded) =>
        \A m \in DOMAIN catalogue.v :
            ~catalogue.v[m].isNone =>
                \A h \in DOMAIN catalogue.v[m].v :
                    ~catalogue.v[m].v[h].isNone =>
                        \A v \in DOMAIN catalogue.v[m].v[h].v :
                            /\ Lower(m) = m
                            /\ Lower(v) \in DOMAIN catalogue.v[m].v[h].v
                            /\ catalogue.v[m].v[h].v[Lower(v)]
                                  = catalogue.v[m].v[h].v[v]

====
